---------------------------- MODULE Spec2Model ----------------------------
(***************************************************************************)
(* Model of the agent runtime of the repository:                           *)
(*   - the Protocol Server (mcp_server.py and mcp_server_standalone.py):   *)
(*     listTools, callTool, listResources, readResource;                   *)
(*   - the Orchestrator of agent_demo.py: the assistant/tools graph, the   *)
(*     thread kept by the checkpointer, the fallback MockLLM.              *)
(* The two are separate programs; Spec runs the Protocol Server,           *)
(* ChannelSpec runs it with every answer kept, AgentSpec runs the          *)
(* Orchestrator from create_agent on, and MockSpec runs one turn of the    *)
(* MockLLM on every short message.                                         *)
(***************************************************************************)
EXTENDS Integers, Sequences, FiniteSets, TLC

VARIABLES
    impl,        \* which server file runs: "mcp_server" or "standalone"
    provider,    \* agent_server.config.provider
    llm,         \* agent_server.llm is not None (mcp_server.py only)
    req,         \* the request being answered
    resp,        \* the handler's outcome for req
    invoked,     \* the tool function the handler ran for req, or "none"
    served,      \* requests answered so far
    faults,      \* requests whose handler raised
    log,         \* the requests answered so far, each with its answer
    env,         \* the environment create_agent reads its configuration from
    prompt,      \* the messages handed to the Model Invoker at its last call
    variant,     \* the Model Invoker chosen by create_agent
    alwaysCalls, \* the remote backend emits a tool call on every invocation
    thread,      \* messages of thread "main-conversation" (the checkpoint)
    phase,       \* Idle, AwaitingModel, AwaitingTools, Done, Failed
    steps,       \* graph super-steps run in the current turn
    turns,       \* turns started
    rounds,      \* tool rounds run so far
    caught       \* the exception chat_with_agent caught in this turn, or "none"

serverVars == <<impl, provider, llm, req, resp, invoked, served, faults, log>>
agentVars == <<env, prompt, variant, alwaysCalls, thread, phase, steps, turns, rounds, caught>>
vars == <<impl, provider, llm, req, resp, invoked, served, faults, log,
          env, prompt, variant, alwaysCalls, thread, phase, steps, turns, rounds, caught>>

---------------------------------------------------------------------------
(* Bounds *)

MaxInt == 2
MaxRequests == 3

---------------------------------------------------------------------------
(* Python values carried by JSON arguments: int, str, None *)

IntV(n) == [t |-> "int", i |-> n, s |-> ""]
StrV(x) == [t |-> "str", i |-> 0, s |-> x]
NoneV == [t |-> "none", i |-> 0, s |-> ""]
RaisedV == [t |-> "raise", i |-> 0, s |-> ""]

Digit(d) == CASE d = 0 -> "0" [] d = 1 -> "1" [] d = 2 -> "2" [] d = 3 -> "3"
              [] d = 4 -> "4" [] d = 5 -> "5" [] d = 6 -> "6" [] d = 7 -> "7"
              [] d = 8 -> "8" [] OTHER -> "9"

RECURSIVE NatToStr(_)
NatToStr(n) == IF n < 10 THEN Digit(n) ELSE NatToStr(n \div 10) \o Digit(n % 10)

\* str(n) of a Python int
IntToStr(n) == IF n < 0 THEN "-" \o NatToStr(0 - n) ELSE NatToStr(n)

\* the ints whose decimal form the model's strings can hold
ParseRange == -99 .. 99

\* the decimal strings, and the int each one denotes
IntStrs == {IntToStr(n) : n \in ParseRange}
ParseTable == [s \in IntStrs |-> CHOOSE n \in ParseRange : IntToStr(n) = s]

\* int(s): defined on decimal strings only
IsIntStr(s) == s \in IntStrs
StrToInt(s) == ParseTable[s]

RECURSIVE Repeat(_, _)
Repeat(s, n) == IF n <= 0 THEN "" ELSE s \o Repeat(s, n - 1)

\* a + b in Python: int addition, str concatenation, TypeError otherwise
PyAdd(u, v) ==
    CASE u.t = "int" /\ v.t = "int" -> IntV(u.i + v.i)
      [] u.t = "str" /\ v.t = "str" -> StrV(u.s \o v.s)
      [] OTHER -> RaisedV

\* x * y in Python: int product, sequence repetition, TypeError otherwise
PyMul(u, v) ==
    CASE u.t = "int" /\ v.t = "int" -> IntV(u.i * v.i)
      [] u.t = "str" /\ v.t = "int" -> StrV(Repeat(u.s, v.i))
      [] u.t = "int" /\ v.t = "str" -> StrV(Repeat(v.s, u.i))
      [] OTHER -> RaisedV

\* the tool argument schema of the @tool functions (a: int): an int passes,
\* a decimal string is converted, anything else is a validation error
CoerceInt(v) ==
    CASE v.t = "int" -> v
      [] v.t = "str" /\ IsIntStr(v.s) -> IntV(StrToInt(v.s))
      [] OTHER -> RaisedV

\* the elements of a list
Range(q) == {q[i] : i \in DOMAIN q}

\* arguments.get(k)
Get(arguments, k) == IF k \in DOMAIN arguments THEN arguments[k] ELSE NoneV

\* "v is None" mistaken for "not v": 0 and "" count as missing
IsNoneFalsy(v) == v.t = "none" \/ (v.t = "int" /\ v.i = 0) \/ (v.t = "str" /\ v.s = "")

\* v is None
IsNone(v) == v.t = "none"

---------------------------------------------------------------------------
(* Protocol Server: catalogs *)

Tool(name, properties, required) ==
    [name |-> name, properties |-> properties, required |-> required]

\* a catalog that lost its last entry
handle_list_tools_short ==
    << Tool("add_numbers", {<<"a", "integer">>, <<"b", "integer">>}, <<"a", "b">>),
       Tool("multiply_numbers", {<<"x", "integer">>, <<"y", "integer">>}, <<"x", "y">>),
       Tool("get_agent_help", {}, <<>>) >>

handle_list_tools ==
    << Tool("add_numbers", {<<"a", "integer">>, <<"b", "integer">>}, <<"a", "b">>),
       Tool("multiply_numbers", {<<"x", "integer">>, <<"y", "integer">>}, <<"x", "y">>),
       Tool("get_agent_help", {}, <<>>),
       Tool("get_system_info", {}, <<>>) >>

handle_list_resources ==
    << [uri |-> "agent://config", mimeType |-> "application/json"],
       [uri |-> "agent://capabilities", mimeType |-> "text/plain"] >>

---------------------------------------------------------------------------
(* Protocol Server: outcomes of a handler *)

\* the handler returned text content
Content(tag, a, b, result) ==
    [kind |-> "content", tag |-> tag, a |-> a, b |-> b, result |-> result]
Plain(kind, tag) ==
    [kind |-> kind, tag |-> tag, a |-> NoneV, b |-> NoneV, result |-> NoneV]

Outcome(r, f) == [resp |-> r, invoked |-> f]

\* add_numbers.invoke({"a": a, "b": b}) of mcp_server.py: the tool validates
\* its input against (a: int, b: int) and then runs add_numbers
ToolInvoke(fn, u, v) ==
    LET cu == CoerceInt(u)
        cv == CoerceInt(v)
    IN  IF cu.t = "raise" \/ cv.t = "raise"
        THEN [result |-> RaisedV, ran |-> FALSE]
        ELSE [result |-> IF fn = "add_numbers" THEN PyAdd(cu, cv) ELSE PyMul(cu, cv),
              ran |-> TRUE]

\* add_numbers_impl(a, b) / multiply_numbers_impl(x, y) of the standalone
\* server: called on the raw arguments
ImplCall(fn, u, v) ==
    [result |-> IF fn = "add_numbers" THEN PyAdd(u, v) ELSE PyMul(u, v), ran |-> TRUE]

\* a server that stays broken once a call was answered with an error
Arith_after_error(server, fn, u, v) ==
    IF resp.kind = "content"
       /\ resp.tag \in {"ErrorRequiredAB", "ErrorRequiredXY", "ErrorExecuting",
                        "ErrorUnknownTool"}
    THEN [result |-> RaisedV, ran |-> FALSE]
    ELSE IF server = "mcp_server" THEN ToolInvoke(fn, u, v) ELSE ImplCall(fn, u, v)

Arith(server, fn, u, v) ==
    IF server = "mcp_server" THEN ToolInvoke(fn, u, v) ELSE ImplCall(fn, u, v)

handle_call_tool(server, name, arguments) ==
    CASE name = "add_numbers" ->
           LET a == Get(arguments, "a")
               b == Get(arguments, "b")
           IN  IF IsNone(a) \/ IsNone(b)
               THEN Outcome(Content("ErrorRequiredAB", NoneV, NoneV, NoneV), "none")
               ELSE LET r == Arith(server, "add_numbers", a, b)
                    IN  IF r.result.t = "raise"
                        THEN Outcome(Content("ErrorExecuting", NoneV, NoneV, NoneV),
                                     IF r.ran THEN "add_numbers" ELSE "none")
                        ELSE Outcome(Content("AdditionResult", a, b, r.result),
                                     "add_numbers")
      [] name = "multiply_numbers" ->
           LET x == Get(arguments, "x")
               y == Get(arguments, "y")
           IN  IF IsNone(x) \/ IsNone(y)
               THEN Outcome(Content("ErrorRequiredXY", NoneV, NoneV, NoneV), "none")
               ELSE LET r == Arith(server, "multiply_numbers", x, y)
                    IN  IF r.result.t = "raise"
                        THEN Outcome(Content("ErrorExecuting", NoneV, NoneV, NoneV),
                                     IF r.ran THEN "multiply_numbers" ELSE "none")
                        ELSE Outcome(Content("MultiplicationResult", x, y, r.result),
                                     "multiply_numbers")
      [] name = "get_agent_help" ->
           Outcome(Content("AgentCapabilities", NoneV, NoneV, NoneV), "get_agent_help")
      [] name = "get_system_info" ->
           Outcome(Content("SystemInformation", NoneV, NoneV, NoneV), "get_system_info")
      [] OTHER ->
           Outcome(Content("ErrorUnknownTool", NoneV, NoneV, NoneV), "none")

\* the fields of the agent://config document
ConfigFields(server) ==
    IF server = "mcp_server"
    THEN {"provider", "ollama_model", "gemini_model", "llm_connected", "tools_available"}
    ELSE {"provider", "ollama_model", "gemini_model", "python_version",
          "working_directory", "tools_available"}

\* a reader that answers an unknown uri with empty text
handle_read_resource_lenient(server, uri) ==
    CASE uri = "agent://config" ->
           [kind |-> "json", tag |-> "config", fields |-> ConfigFields(server),
            tools_available |-> <<"add_numbers", "multiply_numbers", "get_agent_help",
                                  "get_system_info">>]
      [] uri = "agent://capabilities" ->
           [kind |-> "text", tag |-> "capabilities", fields |-> {}, tools_available |-> <<>>]
      [] OTHER -> [kind |-> "text", tag |-> "empty", fields |-> {}, tools_available |-> <<>>]

handle_read_resource(server, uri) ==
    CASE uri = "agent://config" ->
           [kind |-> "json", tag |-> "config", fields |-> ConfigFields(server),
            tools_available |-> <<"add_numbers", "multiply_numbers", "get_agent_help",
                                  "get_system_info">>]
      [] uri = "agent://capabilities" ->
           [kind |-> "text", tag |-> "capabilities", fields |-> {}, tools_available |-> <<>>]
      [] OTHER -> [kind |-> "fault", tag |-> "UnknownResource", fields |-> {},
                   tools_available |-> <<>>]

---------------------------------------------------------------------------
(* Protocol Server: the requests of one client over one channel *)

Ints == (0 - MaxInt) .. MaxInt

\* argument values a client may send
Values == {IntV(n) : n \in Ints} \cup {NoneV, StrV("2"), StrV("foo")}

ToolNames == {"add_numbers", "multiply_numbers", "get_agent_help",
              "get_system_info", "nonexistent_tool"}

\* argument objects over two field names, each absent or carrying a value
ArgsOver(f, g) ==
    {[k \in S |-> IF k = f THEN p[1] ELSE p[2]] :
        S \in SUBSET {f, g}, p \in Values \X Values}

ArgsFor(name) ==
    CASE name = "add_numbers" -> ArgsOver("a", "b")
      [] name = "multiply_numbers" -> ArgsOver("x", "y")
      [] OTHER -> {[k \in {} |-> NoneV], [k \in {"a"} |-> IntV(1)]}

Uris == {"agent://config", "agent://capabilities", "agent://unknown"}

NoArgs == [k \in {} |-> NoneV]
Request(op, name, arguments, uri) ==
    [op |-> op, name |-> name, arguments |-> arguments, uri |-> uri]

ListTools ==
    /\ served < MaxRequests
    /\ req' = Request("listTools", "", NoArgs, "")
    /\ resp' = [kind |-> "catalog", tag |-> "tools", items |-> handle_list_tools]
    /\ invoked' = "none"
    /\ served' = served + 1
    /\ faults' = faults + (IF resp'.kind = "fault" THEN 1 ELSE 0)
    /\ UNCHANGED <<impl, provider, llm>>
    /\ UNCHANGED agentVars

CallTool(name, arguments) ==
    /\ served < MaxRequests
    /\ LET out == handle_call_tool(impl, name, arguments)
       IN  /\ resp' = out.resp
           /\ invoked' = out.invoked
    /\ req' = Request("callTool", name, arguments, "")
    /\ served' = served + 1
    /\ faults' = faults + (IF resp'.kind = "fault" THEN 1 ELSE 0)
    /\ UNCHANGED <<impl, provider, llm>>
    /\ UNCHANGED agentVars

ListResources ==
    /\ served < MaxRequests
    /\ req' = Request("listResources", "", NoArgs, "")
    /\ resp' = [kind |-> "catalog", tag |-> "resources", items |-> handle_list_resources]
    /\ invoked' = "none"
    /\ served' = served + 1
    /\ faults' = faults + (IF resp'.kind = "fault" THEN 1 ELSE 0)
    /\ UNCHANGED <<impl, provider, llm>>
    /\ UNCHANGED agentVars

ReadResource(uri) ==
    /\ served < MaxRequests
    /\ req' = Request("readResource", "", NoArgs, uri)
    /\ resp' = handle_read_resource(impl, uri)
    /\ invoked' = "none"
    /\ served' = served + 1
    /\ faults' = faults + (IF resp'.kind = "fault" THEN 1 ELSE 0)
    /\ UNCHANGED <<impl, provider, llm>>
    /\ UNCHANGED agentVars

\* the agent program before create_agent has run
AgentIdle ==
    /\ env = [provider |-> "ollama", api_key |-> FALSE, backend |-> FALSE]
    /\ prompt = <<>>
    /\ variant = "Fallback"
    /\ alwaysCalls = FALSE
    /\ thread = <<>>
    /\ phase = "Idle"
    /\ steps = 0
    /\ turns = 0
    /\ rounds = 0
    /\ caught = "none"

\* the server module is loaded: agent_server is built, nothing is served yet
ServerStart ==
    /\ impl \in {"mcp_server", "standalone"}
    /\ provider \in {"ollama", "gemini"}
    /\ llm \in (IF impl = "mcp_server" THEN BOOLEAN ELSE {FALSE})
    /\ req = Request("none", "", NoArgs, "")
    /\ resp = Plain("none", "none")
    /\ invoked = "none"
    /\ served = 0
    /\ faults = 0
    /\ log = <<>>

Init == ServerStart /\ AgentIdle

Next ==
    \/ ListTools /\ UNCHANGED log
    \/ \E name \in ToolNames : \E arguments \in ArgsFor(name) :
          CallTool(name, arguments) /\ UNCHANGED log
    \/ ListResources /\ UNCHANGED log
    \/ \E uri \in Uris : ReadResource(uri) /\ UNCHANGED log

Spec == Init /\ [][Next]_vars

---------------------------------------------------------------------------
(* Protocol Server: a channel whose answers are kept, over a few requests *)

\* tool calls a client repeats: good ones, one with a missing argument, one
\* of an unknown tool
ProbeCalls ==
    { [name |-> "add_numbers", arguments |-> [a |-> IntV(2), b |-> IntV(1)]],
      [name |-> "add_numbers", arguments |-> [a |-> IntV(2)]],
      [name |-> "multiply_numbers", arguments |-> [x |-> IntV(2), y |-> IntV(0)]],
      [name |-> "get_system_info", arguments |-> NoArgs],
      [name |-> "nonexistent_tool", arguments |-> NoArgs] }

\* the answer just given joins the log
Record == log' = Append(log, [req |-> req', resp |-> resp'])

ChannelNext ==
    \/ ListTools /\ Record
    \/ \E c \in ProbeCalls : CallTool(c.name, c.arguments) /\ Record
    \/ ListResources /\ Record
    \/ \E uri \in Uris : ReadResource(uri) /\ Record

ChannelSpec == Init /\ [][ChannelNext]_vars

---------------------------------------------------------------------------
(* Orchestrator: messages.  Text is a sequence of tokens, a token being a   *)
(* word or a run of decimal digits.                                         *)

MaxTurns == 2
MaxRounds == 2

\* super-steps a turn may run before the graph raises GraphRecursionError
RecursionLimit == 25

ToolCall(name, args, id) == [name |-> name, args |-> args, id |-> id]

HumanMessage(content) ==
    [role |-> "user", content |-> content, tool_calls |-> <<>>,
     tool_call_id |-> "", status |-> ""]
AIMessage(content, tool_calls) ==
    [role |-> "assistant", content |-> content, tool_calls |-> tool_calls,
     tool_call_id |-> "", status |-> ""]
\* a tool message that repeats the request in words before the result
ToolMessage_echo(content, id, status) ==
    [role |-> "tool", content |-> <<"add", "1", "and", "2", "is">> \o content,
     tool_calls |-> <<>>, tool_call_id |-> id, status |-> status]

ToolMessage(content, id, status) ==
    [role |-> "tool", content |-> content, tool_calls |-> <<>>,
     tool_call_id |-> id, status |-> status]

\* str.lower() of a token
Lower(tok) ==
    CASE tok = "Add" -> "add"
      [] tok = "Multiply" -> "multiply"
      [] tok = "What" -> "what"
      [] tok = "Help" -> "help"
      [] tok = "Calculate" -> "calculate"
      [] OTHER -> tok

\* the keywords that occur in a lower-case token as substrings
KeywordsIn(tok) ==
    CASE tok \in {"add", "add_numbers", "adding"} -> {"add"}
      [] tok \in {"multiply", "multiply_numbers", "multiplying"} -> {"multiply"}
      [] tok \in {"help", "get_help"} -> {"help"}
      [] tok \in {"what", "whatever"} -> {"what"}
      [] OTHER -> {}

\* keyword in text
In(keyword, text) == \E i \in DOMAIN text : keyword \in KeywordsIn(text[i])

DigitStrs == {NatToStr(n) : n \in 0 .. 99}

\* the digit run of a token: the token itself, or what follows a minus sign
DigitRun(tok) ==
    IF tok \in DigitStrs THEN <<tok>>
    ELSE IF \E d \in DigitStrs : tok = "-" \o d
         THEN <<CHOOSE d \in DigitStrs : tok = "-" \o d>>
         ELSE <<>>

\* re.findall(r'\d+', text)
RECURSIVE FindNumbers(_)
FindNumbers(text) ==
    IF text = <<>> THEN <<>> ELSE DigitRun(Head(text)) \o FindNumbers(Tail(text))

\* any(char.isdigit() for char in text)
AnyDigit(text) == FindNumbers(text) # <<>>

HelpReply == <<"I", "can", "help", "you", "with", "mathematical", "operations!">>
GenericReply == <<"I", "can", "help", "you", "with", "adding", "and", "multiplying",
                  "numbers.">>
NoCallArgs == [k \in {} |-> NoneV]

\* a MockLLM that takes the last two numbers of the message
MockLLM_invoke_last_two(messages) ==
    LET last_message == IF messages = <<>> THEN <<>>
                        ELSE [i \in DOMAIN messages[Len(messages)].content |->
                                 Lower(messages[Len(messages)].content[i])]
        numbers == FindNumbers(last_message)
        n == Len(numbers)
    IN  IF In("help", last_message) \/ In("what", last_message)
        THEN AIMessage(HelpReply, <<>>)
        ELSE IF In("add", last_message) /\ AnyDigit(last_message)
        THEN IF n >= 2
             THEN AIMessage(<<"I'll", "add", numbers[n - 1], "and", numbers[n], "for", "you.">>,
                     <<ToolCall("add_numbers",
                                [k \in {"a", "b"} |-> IF k = "a" THEN IntV(StrToInt(numbers[n - 1]))
                                                      ELSE IntV(StrToInt(numbers[n]))],
                                "call_add")>>)
             ELSE AIMessage(GenericReply, <<>>)
        ELSE IF In("multiply", last_message) /\ AnyDigit(last_message)
        THEN IF n >= 2
             THEN AIMessage(<<"I'll", "multiply", numbers[n - 1], "by", numbers[n], "for", "you.">>,
                     <<ToolCall("multiply_numbers",
                                [k \in {"x", "y"} |-> IF k = "x" THEN IntV(StrToInt(numbers[n - 1]))
                                                      ELSE IntV(StrToInt(numbers[n]))],
                                "call_multiply")>>)
             ELSE AIMessage(GenericReply, <<>>)
        ELSE AIMessage(GenericReply, <<>>)

\* the if/elif chain of MockLLM.invoke on the lowered last message
MockReply(last_message) ==
    LET numbers == FindNumbers(last_message)
    IN  IF In("help", last_message) \/ In("what", last_message)
        THEN AIMessage(HelpReply, <<>>)
        ELSE IF In("add", last_message) /\ AnyDigit(last_message)
        THEN IF Len(numbers) >= 2
             THEN AIMessage(<<"I'll", "add", numbers[1], "and", numbers[2], "for", "you.">>,
                     <<ToolCall("add_numbers",
                                [k \in {"a", "b"} |-> IF k = "a" THEN IntV(StrToInt(numbers[1]))
                                                      ELSE IntV(StrToInt(numbers[2]))],
                                "call_add")>>)
             ELSE AIMessage(GenericReply, <<>>)
        ELSE IF In("multiply", last_message) /\ AnyDigit(last_message)
        THEN IF Len(numbers) >= 2
             THEN AIMessage(<<"I'll", "multiply", numbers[1], "by", numbers[2], "for", "you.">>,
                     <<ToolCall("multiply_numbers",
                                [k \in {"x", "y"} |-> IF k = "x" THEN IntV(StrToInt(numbers[1]))
                                                      ELSE IntV(StrToInt(numbers[2]))],
                                "call_multiply")>>)
             ELSE AIMessage(GenericReply, <<>>)
        ELSE AIMessage(GenericReply, <<>>)

\* what a model call gives back when it raises E instead of answering
Raised(E) == [role |-> "raised", content |-> <<E>>, tool_calls |-> <<>>,
              tool_call_id |-> "", status |-> ""]

\* messages[-1].content.lower()
LowerContent(message) == [i \in DOMAIN message.content |-> Lower(message.content[i])]

\* a MockLLM that reads messages[-1] without asking whether there is one
MockLLM_invoke_unguarded(messages) ==
    IF messages = <<>> THEN Raised("IndexError")
    ELSE MockReply(LowerContent(messages[Len(messages)]))

\* MockLLM.invoke(messages)
MockLLM_invoke(messages) ==
    MockReply(IF messages = <<>> THEN <<>> ELSE LowerContent(messages[Len(messages)]))

---------------------------------------------------------------------------
(* Orchestrator: the tools node *)

\* tools = [add_numbers, multiply_numbers, get_help]
tools == <<"add_numbers", "multiply_numbers", "get_help">>

HelpText == <<"add", "5", "and", "3", "multiply", "4", "by", "6">>

\* one tool call run by the tools node: an unknown name and arguments the
\* tool's schema rejects become an error-status tool message
RunToolCall(call) ==
    IF call.name \notin Range(tools)
    THEN ToolMessage(<<"Error:", call.name, "is", "not", "a", "valid", "tool">>,
                     call.id, "error")
    ELSE IF call.name = "get_help"
    THEN ToolMessage(HelpText, call.id, "success")
    ELSE LET f == IF call.name = "add_numbers" THEN "a" ELSE "x"
             g == IF call.name = "add_numbers" THEN "b" ELSE "y"
             r == ToolInvoke(call.name, Get(call.args, f), Get(call.args, g))
         IN  IF r.result.t = "raise"
             THEN ToolMessage(<<"Error:", "ValidationError">>, call.id, "error")
             ELSE ToolMessage(<<IntToStr(r.result.i)>>, call.id, "success")

\* a tools node that lets the first failing call abort the batch
ToolNode_abort_on_error(calls) ==
    LET out == [i \in DOMAIN calls |-> RunToolCall(calls[i])]
    IN  IF \E i \in DOMAIN out : out[i].status = "error"
        THEN [messages |-> <<>>, raised |-> TRUE]
        ELSE [messages |-> out, raised |-> FALSE]

\* a tools node that publishes results in reverse order
ToolNode_reversed(calls) ==
    [messages |-> [i \in DOMAIN calls |-> RunToolCall(calls[Len(calls) + 1 - i])],
     raised |-> FALSE]

\* ToolNode(tools) applied to the tool calls of the last assistant message
ToolNode(calls) ==
    [messages |-> [i \in DOMAIN calls |-> RunToolCall(calls[i])], raised |-> FALSE]

\* a graph whose assistant node has a plain edge to END
tools_condition_to_end(message) == "Done"

\* tools_condition: "tools" when the last message carries tool calls
tools_condition(message) ==
    IF message.tool_calls # <<>> THEN "AwaitingTools" ELSE "Done"

---------------------------------------------------------------------------
(* Orchestrator: the model backends *)

AddCall == ToolCall("add_numbers",
                    [k \in {"a", "b"} |-> IF k = "a" THEN IntV(15) ELSE IntV(27)], "call_1")

\* replies a remote backend may give: a final answer, one tool call, or a
\* batch with an unknown tool, a good call, a missing argument, a wrong type
RemoteReplies ==
    { AIMessage(<<"done">>, <<>>),
      AIMessage(<<>>, <<AddCall>>),
      AIMessage(<<>>, << ToolCall("nonexistent_tool", NoCallArgs, "call_1"),
                         ToolCall("multiply_numbers",
                                  [k \in {"x", "y"} |-> IF k = "x" THEN IntV(2) ELSE IntV(3)],
                                  "call_2"),
                         ToolCall("add_numbers", [k \in {"a"} |-> IntV(5)], "call_3"),
                         ToolCall("multiply_numbers",
                                  [k \in {"x", "y"} |-> StrV("foo")], "call_4"),
                         ToolCall("get_help", NoCallArgs, "call_5") >>) }

\* test_queries of main()
Queries ==
    { <<"What", "can", "you", "help", "me", "with?">>,
      <<"Add", "15", "and", "27">>,
      <<"Multiply", "8", "by", "9">>,
      <<"Calculate", "10", "plus", "5", "then", "multiply", "by", "2">> }

---------------------------------------------------------------------------
(* Orchestrator: chat_with_agent and the graph *)

Last(q) == q[Len(q)]
TurnOver == phase \in {"Idle", "Done", "Failed"}

\* the state's reducer put the new messages in place of the old ones
add_messages_overwrite(left, right) == right

\* the state's reducer put the new messages in front of the old ones
add_messages_prepend(left, right) == right \o left

\* add_messages, the reducer of AgentState.messages: the new messages carry
\* fresh ids, so they join the end of the thread
add_messages(left, right) == left \o right

\* a call_model that publishes what had arrived when the model call raised
call_model_partial(response) ==
    IF response.role = "raised"
    THEN [messages |-> <<AIMessage(<<"partial">>, <<>>)>>, raised |-> TRUE]
    ELSE [messages |-> <<response>>, raised |-> FALSE]

\* call_model: the update {"messages": [response]}, or none when invoke raised
call_model(response) ==
    IF response.role = "raised"
    THEN [messages |-> <<>>, raised |-> TRUE]
    ELSE [messages |-> <<response>>, raised |-> FALSE]

\* chat_with_agent(agent, query): the user message enters the thread kept
\* under "main-conversation" and the graph starts at the assistant node
SubmitUser(query) ==
    /\ TurnOver
    /\ turns < MaxTurns
    /\ thread' = add_messages(thread, <<HumanMessage(query)>>)
    /\ phase' = "AwaitingModel"
    /\ steps' = 0
    /\ caught' = "none"
    /\ turns' = turns + 1
    /\ UNCHANGED <<env, prompt, variant, alwaysCalls, rounds>>
    /\ UNCHANGED serverVars

\* the assistant node: the model is invoked on state["messages"]; its reply
\* joins the thread and tools_condition picks the next node, or the
\* exception leaves the graph and chat_with_agent catches it
AssistantNode(response) ==
    LET update == call_model(response)
    IN  /\ prompt' = thread
        /\ thread' = add_messages(thread, update.messages)
        /\ IF update.raised
           THEN /\ phase' = "Failed"
                /\ caught' = Head(response.content)
                /\ steps' = steps
           ELSE /\ phase' = tools_condition(response)
                /\ caught' = caught
                /\ steps' = steps + 1
        /\ UNCHANGED <<env, variant, alwaysCalls, turns, rounds>>
        /\ UNCHANGED serverVars

\* call_model with the MockLLM
CallModelFallback ==
    /\ phase = "AwaitingModel"
    /\ steps < RecursionLimit
    /\ variant = "Fallback"
    /\ AssistantNode(MockLLM_invoke(thread))

\* call_model with the remote backend, which answers
CallModelRemote(response) ==
    /\ phase = "AwaitingModel"
    /\ steps < RecursionLimit
    /\ variant = "Remote"
    /\ IF alwaysCalls THEN response = AIMessage(<<>>, <<AddCall>>)
       ELSE response.tool_calls # <<>> => rounds < MaxRounds
    /\ AssistantNode(response)

\* call_model with the remote backend, which raises
CallModelFails ==
    /\ phase = "AwaitingModel"
    /\ steps < RecursionLimit
    /\ variant = "Remote"
    /\ ~alwaysCalls
    /\ AssistantNode(Raised("ProviderError"))

\* the tools node, then the edge tools -> assistant
ToolsStep ==
    /\ phase = "AwaitingTools"
    /\ steps < RecursionLimit
    /\ LET out == ToolNode(Last(thread).tool_calls)
       IN  IF out.raised
           THEN /\ phase' = "Failed"
                /\ caught' = "ToolError"
                /\ UNCHANGED <<thread, steps, rounds>>
           ELSE /\ thread' = add_messages(thread, out.messages)
                /\ phase' = "AwaitingModel"
                /\ steps' = steps + 1
                /\ rounds' = rounds + 1
                /\ caught' = caught
    /\ UNCHANGED <<env, prompt, variant, alwaysCalls, turns>>
    /\ UNCHANGED serverVars

\* the graph has run RecursionLimit super-steps and is not at END: it raises
\* GraphRecursionError, which chat_with_agent catches
RecursionLimitReached ==
    /\ phase \in {"AwaitingModel", "AwaitingTools"}
    /\ steps >= RecursionLimit
    /\ phase' = "Failed"
    /\ caught' = "GraphRecursionError"
    /\ UNCHANGED <<env, prompt, variant, alwaysCalls, thread, steps, turns, rounds>>
    /\ UNCHANGED serverVars

\* the server program, not started
ServerIdle ==
    /\ impl = "standalone"
    /\ provider = "ollama"
    /\ llm = FALSE
    /\ req = Request("none", "", NoArgs, "")
    /\ resp = Plain("none", "none")
    /\ invoked = "none"
    /\ served = 0
    /\ faults = 0
    /\ log = <<>>

\* the environments create_agent may start in: the provider name, whether
\* GOOGLE_API_KEY is set, whether the client constructor and bind_tools return
Envs ==
    { [provider |-> "ollama", api_key |-> FALSE, backend |-> TRUE],
      [provider |-> "ollama", api_key |-> FALSE, backend |-> FALSE],
      [provider |-> "gemini", api_key |-> TRUE, backend |-> TRUE],
      [provider |-> "gemini", api_key |-> FALSE, backend |-> TRUE],
      [provider |-> "openai", api_key |-> TRUE, backend |-> TRUE] }

\* load_llm_config(): LLMConfig takes the providers of its Literal and raises
\* a validation error on every other name
load_llm_config(e) ==
    IF e.provider \in {"ollama", "gemini"}
    THEN [raised |-> FALSE, provider |-> e.provider, google_api_key |-> e.api_key]
    ELSE [raised |-> TRUE, provider |-> e.provider, google_api_key |-> e.api_key]

\* create_llm(config), then bind_tools: TRUE when a client comes back
create_llm(config, e) ==
    CASE config.provider = "ollama" -> e.backend
      [] config.provider = "gemini" -> config.google_api_key /\ e.backend
      [] OTHER -> FALSE

\* create_agent(): the configuration is loaded before the try; inside it the
\* client is made, and the except branch puts the MockLLM in its place
create_agent(e) ==
    LET config == load_llm_config(e)
    IN  IF config.raised THEN "Crashed"
        ELSE IF create_llm(config, e) THEN "Remote" ELSE "Fallback"

\* create_agent has run: the remote backend was set up, the MockLLM stands
\* in, or the program ended in create_agent
AgentStart ==
    /\ env \in Envs
    /\ variant = create_agent(env)
    /\ alwaysCalls \in (IF variant = "Remote" THEN BOOLEAN ELSE {FALSE})
    /\ prompt = <<>>
    /\ thread = <<>>
    /\ phase = (IF variant = "Crashed" THEN "Crashed" ELSE "Idle")
    /\ steps = 0
    /\ turns = 0
    /\ rounds = 0
    /\ caught = "none"

AgentInit == ServerIdle /\ AgentStart

AgentNext ==
    \/ \E query \in Queries : SubmitUser(query)
    \/ CallModelFallback
    \/ \E response \in RemoteReplies : CallModelRemote(response)
    \/ CallModelFails
    \/ ToolsStep
    \/ RecursionLimitReached

AgentSpec == AgentInit /\ [][AgentNext]_vars

---------------------------------------------------------------------------
(* The MockLLM on arbitrary short messages: one turn per message *)

MaxLen == 4

Vocabulary == {"Add", "multiply", "what", "1", "2", "3"}

\* the messages of 1 .. MaxLen tokens over the vocabulary
Texts == UNION {[1 .. n -> Vocabulary] : n \in 1 .. MaxLen}

\* the MockLLM stands in; it is about to be invoked on a user message, or
\* on no message at all
MockInit ==
    /\ ServerIdle
    /\ env = [provider |-> "ollama", api_key |-> FALSE, backend |-> FALSE]
    /\ variant = create_agent(env)
    /\ alwaysCalls = FALSE
    /\ prompt = <<>>
    /\ thread \in {<<>>} \cup {<<HumanMessage(text)>> : text \in Texts}
    /\ phase = "AwaitingModel"
    /\ steps = 0
    /\ turns = 1
    /\ rounds = 0
    /\ caught = "none"

MockNext ==
    \/ CallModelFallback
    \/ ToolsStep

MockSpec == MockInit /\ [][MockNext]_vars

---------------------------------------------------------------------------
(* Claims about the Protocol Server, checked under Spec *)

IsInt(v) == v.t = "int"
Arg(k) == Get(req.arguments, k)

\* C1: for all integers a and b, zero and negative included, callTool of
\* add_numbers {a, b} reports a + b and callTool of multiply_numbers
\* {x: a, y: b} reports a * b; an argument equal to 0 is not taken as missing.
C1_ArithmeticOnIntegers ==
    /\ (req.op = "callTool" /\ req.name = "add_numbers"
          /\ IsInt(Arg("a")) /\ IsInt(Arg("b")))
       => /\ resp.kind = "content"
          /\ resp.tag = "AdditionResult"
          /\ resp.result = IntV(Arg("a").i + Arg("b").i)
    /\ (req.op = "callTool" /\ req.name = "multiply_numbers"
          /\ IsInt(Arg("x")) /\ IsInt(Arg("y")))
       => /\ resp.kind = "content"
          /\ resp.tag = "MultiplicationResult"
          /\ resp.result = IntV(Arg("x").i * Arg("y").i)

\* an addition with a zero and a negative argument was answered
C1_Witness ==
    /\ req.op = "callTool" /\ req.name = "add_numbers"
    /\ Arg("a") = IntV(0) /\ Arg("b") = IntV(0 - MaxInt)
    /\ resp.tag = "AdditionResult"
    /\ resp.result = IntV(0 - MaxInt)

\* the tool schemas of section 6 of the specification: name -> required fields
ExpectedRequired ==
    [n \in {"add_numbers", "multiply_numbers", "get_agent_help", "get_system_info"} |->
        CASE n = "add_numbers" -> {"a", "b"}
          [] n = "multiply_numbers" -> {"x", "y"}
          [] OTHER -> {}]

\* C2: in every reachable state, after any prior requests, listTools returns
\* exactly the four tool specs add_numbers{a, b}, multiply_numbers{x, y},
\* get_agent_help{} and get_system_info{}, with those required integer fields.
C2_ListToolsExactlyFour ==
    req.op = "listTools" =>
        /\ resp.kind = "catalog"
        /\ Len(resp.items) = 4
        /\ {t.name : t \in Range(resp.items)} = DOMAIN ExpectedRequired
        /\ \A t \in Range(resp.items) :
              /\ Range(t.required) = ExpectedRequired[t.name]
              /\ t.properties = {<<f, "integer">> : f \in ExpectedRequired[t.name]}

\* listTools was answered after an earlier request whose handler raised
C2_Witness ==
    /\ req.op = "listTools"
    /\ served >= 2
    /\ faults >= 1
    /\ Len(resp.items) = 4

\* the declared schema of a tool, read from the catalog
SchemaOf(name) == CHOOSE t \in Range(handle_list_tools) : t.name = name
InRegistry(name) == \E t \in Range(handle_list_tools) : t.name = name
SatisfiesSchema(name, arguments) ==
    /\ \A f \in Range(SchemaOf(name).required) : f \in DOMAIN arguments
    /\ \A p \in SchemaOf(name).properties :
          p[1] \in DOMAIN arguments => arguments[p[1]].t = "int"
ValidCall(name, arguments) == InRegistry(name) /\ SatisfiesSchema(name, arguments)
IsErrorContent(r) ==
    r.kind = "content"
    /\ r.tag \in {"ErrorRequiredAB", "ErrorRequiredXY", "ErrorExecuting", "ErrorUnknownTool"}

\* C3: callTool invokes a tool handler only for a registered name whose
\* arguments satisfy the tool's schema (required fields present, present fields
\* of the declared type); otherwise the response is error content and no
\* handler is invoked.
C3_HandlerOnlyOnValidCall ==
    (req.op = "callTool" /\ ~ValidCall(req.name, req.arguments)) =>
        invoked = "none" /\ IsErrorContent(resp)

\* C4: no application-level error leaves a handler as a raised fault: every
\* callTool and readResource request completes normally.
C4_NoFaultLeavesHandler ==
    req.op \in {"callTool", "readResource"} => resp.kind # "fault"

ListedUris == {r.uri : r \in Range(handle_list_resources)}

\* C5: readResource succeeds for every uri that listResources returns, the
\* agent://config content is structured and has a provider field, any other
\* uri yields an UnknownResource failure, and the server goes on answering:
\* this holds of every answer, those given after a failure included.
C5_ReadResource ==
    /\ req.op = "readResource" =>
          /\ req.uri \in ListedUris => resp.kind \in {"json", "text"}
          /\ req.uri = "agent://config" =>
                resp.kind = "json" /\ "provider" \in resp.fields
          /\ req.uri \notin ListedUris =>
                resp.kind = "fault" /\ resp.tag = "UnknownResource"
    /\ req.op = "listResources" =>
          {r.uri : r \in Range(resp.items)} = {"agent://config", "agent://capabilities"}

\* after an unknown uri failed, agent://config was read
C5_Witness ==
    /\ faults >= 1
    /\ req.op = "readResource"
    /\ req.uri = "agent://config"
    /\ resp.kind = "json"
    /\ "provider" \in resp.fields

ListedNames == {t.name : t \in Range(handle_list_tools)}

OtherServer == IF impl = "mcp_server" THEN "standalone" ELSE "mcp_server"

\* C19: on listTools, on listResources and on callTool of add_numbers and
\* multiply_numbers, with arguments of any type, present or missing, the
\* answer of one server file is the answer the other gives to that request.
C19_ServersAnswerAlike ==
    (req.op = "callTool" /\ req.name \in {"add_numbers", "multiply_numbers"}) =>
        resp = handle_call_tool(OtherServer, req.name, req.arguments).resp

---------------------------------------------------------------------------
(* Claims about the Protocol Server's channel, checked under ChannelSpec *)

---------------------------------------------------------------------------
(* Claims about the Orchestrator, checked under AgentSpec *)

LimitReply == <<"iteration", "limit", "reached">>

\* C6: with a Model Invoker that emits a tool call on every invocation, the
\* turn ends in Done and the last message of the thread is a synthetic
\* assistant message reporting that the limit was reached, not an exception.
C6_LimitEndsInDoneWithMessage ==
    (variant = "Remote" /\ alwaysCalls /\ phase \in {"Done", "Failed"}) =>
        /\ phase = "Done"
        /\ caught = "none"
        /\ Last(thread).role = "assistant"
        /\ Last(thread).tool_calls = <<>>
        /\ Last(thread).content = LimitReply

HasCalls(m) == m.role = "assistant" /\ m.tool_calls # <<>>

\* the tool messages that directly follow position p
RECURSIVE ToolRun(_, _)
ToolRun(q, p) ==
    IF p < Len(q) /\ q[p + 1].role = "tool" THEN 1 + ToolRun(q, p + 1) ELSE 0

\* the batch of position p was answered
Answered(p) == HasCalls(thread[p]) /\ ToolRun(thread, p) > 0

\* C7: the tools step answers an assistant message carrying tool calls
\* r1..rn with exactly n tool messages, the i-th tagged with the id of ri, in
\* request order, none duplicated or omitted, and only then is the model
\* awaited again.
C7_ToolResultsMatchRequests ==
    /\ \A p \in DOMAIN thread :
          HasCalls(thread[p]) =>
             LET calls == thread[p].tool_calls
                 k == ToolRun(thread, p)
             IN  /\ k \in {0, Len(calls)}
                 /\ k = Len(calls) =>
                       \A i \in 1 .. k : thread[p + i].tool_call_id = calls[i].id
                 /\ (k = 0 /\ p = Len(thread)) => phase \in {"AwaitingTools", "Failed"}
                 /\ (k = 0 /\ p < Len(thread)) => thread[p + 1].role = "user"
    /\ \A p \in DOMAIN thread :
          thread[p].role = "tool" =>
             p > 1 /\ (thread[p - 1].role = "tool" \/ HasCalls(thread[p - 1]))
    /\ phase = "AwaitingModel" => Last(thread).role \in {"user", "tool"}
    /\ phase = "AwaitingTools" => HasCalls(Last(thread))

\* a batch of five calls was answered and the model is awaited
C7_Witness ==
    /\ phase = "AwaitingModel"
    /\ Len(thread) = 7
    /\ Len(thread[2].tool_calls) = 5
    /\ [i \in 1 .. 5 |-> thread[2 + i].tool_call_id]
          = <<"call_1", "call_2", "call_3", "call_4", "call_5">>

\* a call the tool registry cannot serve: unknown name, or arguments that are
\* missing or not integers
DecimalStrings == {IntToStr(n) : n \in ParseRange}
IntLike(v) == v.t = "int" \/ (v.t = "str" /\ v.s \in DecimalStrings)
CallFails(call) ==
    CASE call.name = "add_numbers" ->
           ~({"a", "b"} \subseteq DOMAIN call.args
                /\ IntLike(call.args["a"]) /\ IntLike(call.args["b"]))
      [] call.name = "multiply_numbers" ->
           ~({"x", "y"} \subseteq DOMAIN call.args
                /\ IntLike(call.args["x"]) /\ IntLike(call.args["y"]))
      [] call.name = "get_help" -> FALSE
      [] OTHER -> TRUE

C9_EndToEndAdd ==
    (/\ variant = "Fallback"
     /\ turns = 1
     /\ phase = "Done"
     /\ thread[1] = HumanMessage(<<"Add", "15", "and", "27">>)) =>
        /\ Len(thread) = 4
        /\ <<thread[1].role, thread[2].role, thread[3].role, thread[4].role>>
              = <<"user", "assistant", "tool", "assistant">>
        /\ Len(thread[2].tool_calls) = 1
        /\ thread[2].tool_calls[1].name = "add_numbers"
        /\ thread[2].tool_calls[1].args = [a |-> IntV(15), b |-> IntV(27)]
        /\ thread[3].content = <<"42">>
        /\ thread[4].tool_calls = <<>>
        /\ "42" \in Range(thread[4].content)

IsPrefix(p, q) == Len(p) <= Len(q) /\ SubSeq(q, 1, Len(p)) = p

\* a model step or a tools step of the graph was completed
Stepped == steps' = steps + 1

\* C12: the thread is append-only: every step of the graph, model step or
\* tools step, leaves the old history as a strict prefix of the new one (at
\* least one message is appended), and no transition removes, reorders or
\* changes a message already in the thread.
C12_AppendOnly ==
    [][ /\ IsPrefix(thread, thread')
        /\ Stepped => Len(thread') > Len(thread) ]_vars

\* in a second turn a tool batch was answered on top of the first turn's
\* messages
C12_Witness ==
    /\ turns = 2
    /\ Len(thread) >= 5
    /\ thread[1].role = "user"
    /\ thread[2].role = "assistant"
    /\ Last(thread).role = "tool"
    /\ phase = "AwaitingModel"

\* a model step: the assistant node ran and its reply joined the thread
ModelStepped == phase = "AwaitingModel" /\ Stepped

\* after a model step the reply just appended decides the next state
RoutedByReply ==
    ModelStepped =>
        /\ Last(thread').role = "assistant"
        /\ phase' = "Done" <=> Last(thread').tool_calls = <<>>
        /\ phase' = "AwaitingTools" <=> Last(thread').tool_calls # <<>>

\* Done is left by the next user message only
DoneIsTerminal ==
    phase = "Done" => (phase' = "Done" \/ (phase' = "AwaitingModel" /\ turns' = turns + 1))

SetupFails(e) ==
    \/ e.provider \notin {"ollama", "gemini"}
    \/ e.provider = "gemini" /\ ~e.api_key
    \/ ~e.backend

\* C15: the Fallback is selected, once and in create_agent, exactly when
\* setting up the remote backend fails, an unsupported provider name and a
\* missing API key included, and startup completes then; every later model
\* call uses that variant, and a remote failure in a turn does not switch.
C15_FallbackIffSetupFails ==
    /\ phase # "Crashed"
    /\ variant = "Fallback" <=> SetupFails(env)
    /\ variant = "Remote" <=> ~SetupFails(env)
    /\ caught = "ProviderError" => variant = "Remote"

UserMessages(q) == Cardinality({i \in DOMAIN q : q[i].role = "user"})

\* C17: the thread lives across turns: a new user message is appended after
\* the earlier history, and every model call, answered or failed, is handed
\* the whole thread: the messages of all earlier turns, one user message per
\* turn, followed by those of the current turn.
C17_ThreadAcrossTurns ==
    [][ /\ turns' = turns + 1 =>
              /\ thread' = Append(thread, Last(thread'))
              /\ Last(thread').role = "user"
        /\ (phase = "AwaitingModel" /\ phase' # phase) =>
              /\ prompt' = thread
              /\ UserMessages(prompt') = turns
              /\ prompt'[1].role = "user" ]_vars

\* the model call that ended the second turn was handed the first turn's
\* question, call, result and answer and the second turn's question
C17_Witness ==
    /\ turns = 2
    /\ phase = "Done"
    /\ Len(prompt) = 5
    /\ prompt = SubSeq(thread, 1, Len(thread) - 1)
    /\ prompt[1].role = "user"
    /\ prompt[3].role = "tool"
    /\ prompt[5].role = "user"
    /\ prompt[5] # prompt[1]

---------------------------------------------------------------------------
(* Claims about the MockLLM, checked under MockSpec *)

IsNumericToken(tok) == tok \in {"0", "1", "2", "3", "4", "5", "6", "7", "8", "9"}
NumericTokens(text) == SelectSeq(text, IsNumericToken)
Mentions(text, word) == \E i \in DOMAIN text : Lower(text[i]) = word

\* the value of a one-digit token
TokenValue(tok) == CHOOSE n \in 0 .. 9 : Digit(n) = tok

\* the assistant message m carries exactly one call of tool name on the
\* first two numeric tokens of text
CallsOnFirstTwo(m, text, name, f, g) ==
    /\ m.role = "assistant"
    /\ Len(m.tool_calls) = 1
    /\ m.tool_calls[1].name = name
    /\ DOMAIN m.tool_calls[1].args = {f, g}
    /\ m.tool_calls[1].args[f] = IntV(TokenValue(NumericTokens(text)[1]))
    /\ m.tool_calls[1].args[g] = IntV(TokenValue(NumericTokens(text)[2]))

\* the MockLLM has just answered the message before the last one
JustAnswered == Len(thread) >= 2 /\ Last(thread).role = "assistant"
Asked == thread[Len(thread) - 1].content

\* C10 as stated: whenever the latest message contains "add" (respectively
\* "multiply") and at least two numeric tokens, the Fallback returns exactly
\* one tool call for add_numbers (respectively multiply_numbers) on the first
\* two numeric tokens, in order of appearance.
C10_KeywordAlwaysCalls ==
    JustAnswered =>
        /\ (Mentions(Asked, "add") /\ Len(NumericTokens(Asked)) >= 2)
              => CallsOnFirstTwo(Last(thread), Asked, "add_numbers", "a", "b")
        /\ (Mentions(Asked, "multiply") /\ Len(NumericTokens(Asked)) >= 2)
              => CallsOnFirstTwo(Last(thread), Asked, "multiply_numbers", "x", "y")

\* C10 amended: the same, provided the message contains neither "help" nor
\* "what", and for multiply_numbers provided it does not contain "add".
C10_KeywordCallsByPriority ==
    JustAnswered =>
        /\ (/\ Mentions(Asked, "add") /\ Len(NumericTokens(Asked)) >= 2
            /\ ~Mentions(Asked, "help") /\ ~Mentions(Asked, "what"))
              => CallsOnFirstTwo(Last(thread), Asked, "add_numbers", "a", "b")
        /\ (/\ Mentions(Asked, "multiply") /\ Len(NumericTokens(Asked)) >= 2
            /\ ~Mentions(Asked, "help") /\ ~Mentions(Asked, "what")
            /\ ~Mentions(Asked, "add"))
              => CallsOnFirstTwo(Last(thread), Asked, "multiply_numbers", "x", "y")

\* "Add 3 1 2" was answered with add_numbers{a: 3, b: 1}
C10_Witness ==
    /\ JustAnswered
    /\ Asked = <<"Add", "3", "1", "2">>
    /\ Last(thread).tool_calls[1].name = "add_numbers"
    /\ Last(thread).tool_calls[1].args = [a |-> IntV(3), b |-> IntV(1)]

C20_FallbackTurnEnds ==
    /\ steps <= 3
    /\ rounds <= 1
    /\ Cardinality({i \in DOMAIN thread : thread[i].role = "assistant"}) <= 2
    /\ Cardinality({i \in DOMAIN thread : thread[i].role = "tool"}) <= 1
    /\ (thread # <<>> /\ Last(thread).role = "tool") =>
          MockLLM_invoke(thread).tool_calls = <<>>
    /\ phase \in {"AwaitingModel", "AwaitingTools", "Done"}
    /\ phase = "AwaitingModel" => (steps < RecursionLimit /\ variant = "Fallback")
    /\ phase = "AwaitingTools" => (steps < RecursionLimit /\ HasCalls(Last(thread)))
    /\ steps = 3 => phase = "Done"

\* a turn that took two model invocations and one tool execution
C20_Witness ==
    /\ phase = "Done"
    /\ steps = 3
    /\ rounds = 1
    /\ Len(thread) = 4

===========================================================================
